---- MODULE Spec2Model ----
(***************************************************************************)
(* Model of the BitBake ClearCase fetcher (lib/bb/fetch2/clearcase.py).    *)
(*                                                                         *)
(* Python strings are sequences of one-character strings, so that          *)
(* str.replace, the "in" substring test, "%" formatting and os.path.join   *)
(* are computed the way the code computes them.  The text of error         *)
(* messages is a sequence of words.                                        *)
(***************************************************************************)
EXTENDS Integers, Sequences, FiniteSets, TLC

VARIABLES
    pc,      \* pc[i]: position of invocation i in the fetcher's methods
    op,      \* op[i]: the method the caller invoked and that is still running
    ud,      \* ud[i]: the url data object (FetchData) of invocation i
    d,       \* d[i]: the datastore of invocation i
    cmd,     \* cmd[i]: the local variable cmd of download / _remove_view
    issued,  \* issued[i]: the steps executed by the current/last method call
    res,     \* res[i]: outcome of the last finished method call
    nupd,    \* nupd[i]: number of identifier appends done by need_update
    fs       \* the filesystem shared by all invocations: path -> content

vars == <<pc, op, ud, d, cmd, issued, res, nupd, fs>>

\* ------------------------------------------------------------------ bounds
NumInv == 2
MaxTime == 2
MaxUpdates == 2

Invs == 1..NumInv

\* ----------------------------------------------------------- Python strings
None == <<"None">>

RECURSIVE replace(_, _, _)
\* str.replace(old, new) for a one-character old
replace(s, old, new) ==
    IF s = <<>> THEN <<>>
    ELSE (IF Head(s) = old THEN new ELSE <<Head(s)>>) \o replace(Tail(s), old, new)

\* the Python test  sub in s
contains(s, sub) ==
    \E k \in 0..(Len(s) - Len(sub)) : SubSeq(s, k + 1, k + Len(sub)) = sub

\* os.path.join(a, b)
path_join(a, b) ==
    IF b # <<>> /\ Head(b) = "/" THEN b
    ELSE IF a = <<>> \/ a[Len(a)] = "/" THEN a \o b
    ELSE a \o <<"/">> \o b

S_http == <<"h","t","t","p">>
S_https == <<"h","t","t","p","s">>
S_ftp == <<"f","t","p">>
S_ccrc == <<"c","c","r","c">>
S_clearcase == <<"c","l","e","a","r","c","a","s","e","-">>
S_view == <<"-","v","i","e","w">>
S_config_spec == <<"-","c","o","n","f","i","g","-","s","p","e","c">>
S_tar_gz == <<".","t","a","r",".","g","z">>
S_LATEST == <<"L","A","T","E","S","T">>
S_INVALID == <<"I","N","V","A","L","I","D">>
S_rcleartool == <<"r","c","l","e","a","r","t","o","o","l">>
S_cleartool == <<"c","l","e","a","r","t","o","o","l">>
S_default_basecmd ==
    <<"/","u","s","r","/","b","i","n","/","e","n","v"," ">> \o S_cleartool
        \o <<" ","|","|"," ">> \o S_rcleartool

Digit(t) == CASE t = 0 -> "0" [] t = 1 -> "1" [] t = 2 -> "2" [] t = 3 -> "3"
              [] t = 4 -> "4" [] t = 5 -> "5" [] t = 6 -> "6" [] t = 7 -> "7"
              [] t = 8 -> "8" [] OTHER -> "9"

\* the values d.getVar("DATETIME") can take
DateTimes == { <<"0", Digit(t)>> : t \in 1..MaxTime }


\* ------------------------------------------------------------- exceptions
NoExc == [kind |-> "none", msg |-> <<>>]

\* bb.fetch2.FetchError(message): msg is the message behind a fixed prefix
FetchError(message) ==
    [kind |-> "FetchError", msg |-> <<"Fetcher failure: ">> \o message]

\* evaluating an unbound global name (fetch2, MissingParameterError)
NameError(name) ==
    [kind |-> "NameError", msg |-> <<"name '", name, "' is not defined">>]

\* bb.fetch2.NetworkAccess raised by check_network_access
NetworkAccess == [kind |-> "NetworkAccess", msg |-> <<"Network access disabled">>]

\* an I/O failure of open / shutil.copyfile
IOError == [kind |-> "IOError", msg |-> <<"I/O error">>]

\* ------------------------------------------------------------ urldata_init
\* mutant: the separators of the module are dropped instead of replaced
identifier_of_stripped(vob, module, label) ==
    S_clearcase \o replace(vob, "/", <<>>) \o replace(module, "/", <<>>)
        \o <<"-">> \o replace(label, "/", <<".">>)

\* mutant: the label is used as it is
identifier_of_raw_label(vob, module, label) ==
    S_clearcase \o replace(vob, "/", <<>>) \o replace(module, "/", <<".">>)
        \o <<"-">> \o label

identifier_of(vob, module, label) ==
    S_clearcase \o replace(vob, "/", <<>>) \o replace(module, "/", <<".">>)
        \o <<"-">> \o replace(label, "/", <<".">>)

viewname_of(identifier, datetime) == identifier \o S_view \o datetime

localfile_of(dd, identifier) == path_join(dd.DL_DIR, identifier \o S_tar_gz)

\* protocol / vob checks of urldata_init: the exception they end in, or NoExc
parameter_check(u) ==
    LET proto == IF "protocol" \in DOMAIN u.parm THEN u.parm.protocol ELSE S_https
    IN  IF proto \notin {S_http, S_https} THEN NameError("fetch2")
        ELSE IF "vob" \notin DOMAIN u.parm THEN NameError("MissingParameterError")
        ELSE NoExc

\* urldata_init(ud, d): the exception raised (NoExc for a normal return)
\* and ud as it is left
urldata_init(u, dd) ==
    LET proto == IF "protocol" \in DOMAIN u.parm THEN u.parm.protocol ELSE S_https
        u1 == [proto |-> proto] @@ u
        chk == parameter_check(u)
    IN  IF chk # NoExc
        THEN [exc |-> chk,
              ud |-> IF proto \in {S_http, S_https} THEN [vob |-> <<>>] @@ u1 ELSE u1]
        ELSE
        LET vob == u.parm.vob
            module == IF "module" \in DOMAIN u.parm THEN u.parm.module ELSE <<>>
            basecmd == IF dd.FETCHCMD_ccrc \notin {None, <<>>}
                       THEN dd.FETCHCMD_ccrc ELSE S_default_basecmd
            u2 == [vob |-> vob, module |-> module, basecmd |-> basecmd] @@ u1
        IN  IF dd.SRCREV = S_INVALID
            THEN [exc |-> FetchError(<<"Set a valid SRCREV">>), ud |-> u2]
            ELSE
            LET label == dd.SRCREV
                identifier == identifier_of(vob, module, label)
                viewname == viewname_of(identifier, dd.DATETIME)
                csname == identifier \o S_config_spec
                ccasedir == path_join(dd.DL_DIR, u.type)
            IN  [exc |-> NoExc,
                 ud |-> [label |-> label,
                         customspec |-> dd.CCASE_CUSTOM_CONFIG_SPEC,
                         server |-> proto \o <<":","/","/">> \o u.host \o u.path,
                         identifier |-> identifier,
                         viewname |-> viewname,
                         csname |-> csname,
                         ccasedir |-> ccasedir,
                         viewdir |-> path_join(ccasedir, viewname),
                         configspecfile |-> path_join(ccasedir, csname),
                         localfile |-> localfile_of(dd, identifier)] @@ u2]

\* FetchData.localpath as the generic fetch layer sets it after urldata_init:
\* the local archive path, DL_DIR joined with ud.localfile
localpath(u, dd) == path_join(dd.DL_DIR, u.localfile)

\* ------------------------------------------------------------- need_update
floating(u) ==
    \/ contains(u.label, S_LATEST)
    \/ (u.customspec \notin {None, <<>>} /\ contains(u.customspec, S_LATEST))

\* mutant: the archive test comes first, also for a floating label
need_update_archive_first(u, dd, files) ==
    IF u.localpath \in DOMAIN files
    THEN [ret |-> "False", ud |-> u]
    ELSE IF floating(u)
    THEN [ret |-> "True",
          ud |-> [u EXCEPT !.identifier = u.identifier \o <<"-">> \o dd.DATETIME]]
    ELSE [ret |-> "True", ud |-> u]

\* mutant: the names derived from the identifier are derived again
need_update_rederive(u, dd, files) ==
    IF floating(u)
    THEN LET id == u.identifier \o <<"-">> \o dd.DATETIME
             vn == viewname_of(id, dd.DATETIME)
         IN  [ret |-> "True",
              ud |-> [u EXCEPT !.identifier = id,
                               !.viewname = vn,
                               !.viewdir = path_join(u.ccasedir, vn),
                               !.localfile = localfile_of(dd, id),
                               !.localpath = localfile_of(dd, id)]]
    ELSE IF u.localpath \in DOMAIN files
    THEN [ret |-> "False", ud |-> u]
    ELSE [ret |-> "True", ud |-> u]

\* mutant: the archive is never consulted
need_update_no_cache(u, dd, files) ==
    IF floating(u)
    THEN [ret |-> "True",
          ud |-> [u EXCEPT !.identifier = u.identifier \o <<"-">> \o dd.DATETIME]]
    ELSE [ret |-> "True", ud |-> u]

\* need_update(ud, d): the value returned and ud as it is left
need_update(u, dd, files) ==
    IF floating(u)
    THEN [ret |-> "True",
          ud |-> [u EXCEPT !.identifier = u.identifier \o <<"-">> \o dd.DATETIME]]
    ELSE IF u.localpath \in DOMAIN files
    THEN [ret |-> "False", ud |-> u]
    ELSE [ret |-> "True", ud |-> u]


\* ---------------------------------------------------- _build_ccase_command
S_mkview == <<"m","k","v","i","e","w">>
S_rmview == <<"r","m","v","i","e","w">>
S_setcs == <<"s","e","t","c","s">>
S_opt_server == <<"-","s","e","r","v","e","r"," ">>
S_opt_snapshot == <<"-","s","n","a","p","s","h","o","t">>
S_opt_tag == <<"-","t","a","g"," ">>
S_opt_force == <<"-","f","o","r","c","e">>
S_opt_overwrite == <<"-","o","v","e","r","w","r","i","t","e">>

RECURSIVE join(_, _)
\* sep.join(list)
join(sep, list) ==
    IF list = <<>> THEN <<>>
    ELSE IF Len(list) = 1 THEN Head(list)
    ELSE Head(list) \o sep \o join(sep, Tail(list))

\* mutant: the server option is appended after the options of the verb
ccase_options_server_last(u, command) ==
    LET server == IF contains(u.basecmd, S_rcleartool)
                  THEN << S_opt_server \o u.server >> ELSE <<>>
    IN  IF command = S_mkview
        THEN (IF ~ contains(u.basecmd, S_rcleartool) THEN << S_opt_snapshot >> ELSE <<>>)
             \o << S_opt_tag \o u.viewname, u.viewdir >> \o server
        ELSE IF command = S_rmview
        THEN << S_opt_force, u.viewdir >> \o server
        ELSE << S_opt_overwrite, u.configspecfile >> \o server

\* mutant: mkview gets the snapshot flag for every client
ccase_options_snapshot_always(u, command) ==
    LET server == IF contains(u.basecmd, S_rcleartool)
                  THEN << S_opt_server \o u.server >> ELSE <<>>
    IN  IF command = S_mkview
        THEN server \o << S_opt_snapshot >> \o << S_opt_tag \o u.viewname, u.viewdir >>
        ELSE IF command = S_rmview
        THEN server \o << S_opt_force, u.viewdir >>
        ELSE server \o << S_opt_overwrite, u.configspecfile >>

\* the list options that _build_ccase_command collects for a verb
ccase_options(u, command) ==
    LET server == IF contains(u.basecmd, S_rcleartool)
                  THEN << S_opt_server \o u.server >> ELSE <<>>
    IN  IF command = S_mkview
        THEN server
             \o (IF ~ contains(u.basecmd, S_rcleartool) THEN << S_opt_snapshot >> ELSE <<>>)
             \o << S_opt_tag \o u.viewname, u.viewdir >>
        ELSE IF command = S_rmview
        THEN server \o << S_opt_force, u.viewdir >>
        ELSE server \o << S_opt_overwrite, u.configspecfile >>

\* _build_ccase_command(ud, command) for the three verbs the fetcher passes
build_ccase_command(u, command) ==
    (u.basecmd \o <<" ">> \o command) \o <<" ">> \o join(<<" ">>, ccase_options(u, command))

\* -------------------------------------------------------- _write_configspec
S_checkedout == <<"e","l","e","m","e","n","t"," ","*"," ","C","H","E","C","K","E","D","O","U","T">>
S_element == <<"e","l","e","m","e","n","t"," ","*"," ">>
S_load == <<"l","o","a","d"," ">>
NL == <<"\n">>

RECURSIVE split_backslash_n(_, _)
\* s.split("\\n"): the pieces between occurrences of backslash followed by n;
\* acc is the piece being read
split_backslash_n(s, acc) ==
    IF s = <<>> THEN << acc >>
    ELSE IF Len(s) >= 2 /\ s[1] = "\\" /\ s[2] = "n"
    THEN << acc >> \o split_backslash_n(SubSeq(s, 3, Len(s)), <<>>)
    ELSE split_backslash_n(Tail(s), Append(acc, Head(s)))

RECURSIVE lines_text(_)
\* config_spec += line + "\n" for each line
lines_text(lines) ==
    IF lines = <<>> THEN <<>> ELSE Head(lines) \o NL \o lines_text(Tail(lines))

\* mutant: the default rules follow the custom config spec
config_spec_custom_then_default(u, dd) ==
    (IF dd.CCASE_CUSTOM_CONFIG_SPEC # None
     THEN lines_text(split_backslash_n(dd.CCASE_CUSTOM_CONFIG_SPEC, <<>>))
     ELSE <<>>)
    \o S_checkedout \o NL
    \o S_element \o u.label \o NL
    \o S_load \o u.vob \o u.module \o NL

\* the text _write_configspec writes into ud.configspecfile
config_spec(u, dd) ==
    IF dd.CCASE_CUSTOM_CONFIG_SPEC # None
    THEN lines_text(split_backslash_n(dd.CCASE_CUSTOM_CONFIG_SPEC, <<>>))
    ELSE S_checkedout \o NL
         \o S_element \o u.label \o NL
         \o S_load \o u.vob \o u.module \o NL

\* ----------------------------------------------------------- the filesystem
\* fs maps each existing path to its content; by names the invocation that
\* created a file or directory (0: it was there before any invocation)
File(i, text) == [kind |-> "file", by |-> i, text |-> text]
Dir(i, entries) == [kind |-> "dir", by |-> i, entries |-> entries]
Tar(i, entries) == [kind |-> "tar", by |-> i, entries |-> entries]

exists(files, path) == path \in DOMAIN files

put(files, path, content) ==
    [p \in DOMAIN files \cup {path} |-> IF p = path THEN content ELSE files[p]]

remove(files, path) == [p \in DOMAIN files \ {path} |-> files[p]]

\* mutant: the file is opened for appending
write_file_append(files, path, i, text) ==
    put(files, path,
        File(i, (IF exists(files, path) THEN files[path].text ELSE <<>>) \o text))

\* with open(path, 'w') as f: f.write(text)
write_file(files, path, i, text) == put(files, path, File(i, text))

\* the directory the build process runs in, which is not a view directory
S_cwd == <<"/","w","o","r","k">>
S_recipe == <<"r","e","c","i","p","e">>
S_loaded == <<"l","o","a","d","e","d">>


\* ------------------------------------------------------------------ inputs
S_vob1 == <<"/","v","o","b","1">>
S_mod1 == <<"/","m","o","d","1">>
S_rel1 == <<"r","e","l","1">>
S_main_latest == <<"/","m","a","i","n","/">> \o S_LATEST
S_custom_latest == S_element \o S_main_latest \o <<"\\","n">> \o S_load \o S_vob1
S_custom_plain == S_element \o <<"X">> \o <<"\\","n">> \o S_load \o S_vob1
S_custom_line == S_element \o <<"Y">>
S_dl == <<"/","d","l">>

Opt(key, value) == IF value = None THEN <<>> ELSE (key :> value)

\* ud.parm as the url parser leaves it: a dictionary of the url's parameters
Parm(protocol, vob, module) ==
    Opt("protocol", protocol) @@ Opt("vob", vob) @@ Opt("module", module)

\* the url data object as the generic fetch layer passes it to urldata_init
PreUd(parm) == [type |-> S_ccrc, host |-> <<"h">>, path |-> <<"/","p">>, parm |-> parm]

Datastore(srcrev, custom, fetchcmd, datetime) ==
    [DL_DIR |-> S_dl, SRCREV |-> srcrev, CCASE_CUSTOM_CONFIG_SPEC |-> custom,
     FETCHCMD_ccrc |-> fetchcmd, DATETIME |-> datetime]

WideUds ==
    { PreUd(Parm(pr, v, m)) : pr \in {None, S_http, S_https, S_ftp},
                              v \in {None, <<>>, S_vob1},
                              m \in {None, S_mod1} }

WideDatastores ==
    { Datastore(s, c, f, t) : s \in {S_rel1, S_main_latest, S_INVALID},
                              c \in {None, S_custom_latest, S_custom_plain},
                              f \in {None, S_cleartool, S_rcleartool},
                              t \in DateTimes }

LifeUds == { PreUd(Parm(None, S_vob1, S_mod1)) }

LifeDatastores ==
    { Datastore(s, c, f, t) : s \in {S_rel1, S_main_latest},
                              c \in {None, S_custom_latest, S_custom_line},
                              f \in {None, S_cleartool, S_rcleartool},
                              t \in DateTimes }

ConcDatastores == { Datastore(S_rel1, None, S_cleartool, t) : t \in DateTimes }

PairUds == { PreUd(Parm(None, v, m)) : v \in {<<>>, S_vob1}, m \in {None, S_mod1} }

PairDatastores ==
    { Datastore(s, c, f, t) : s \in {S_rel1, S_main_latest},
                              c \in {None, S_custom_plain},
                              f \in {None, S_cleartool},
                              t \in DateTimes }

NoRes == [op |-> "none", exc |-> NoExc, at |-> "none", ret |-> "None"]

\* what the build directory holds
CwdEntries == { [name |-> S_recipe, text |-> <<>>] }

InitRest ==
    /\ pc = [i \in Invs |-> "new"]
    /\ op = [i \in Invs |-> "none"]
    /\ cmd = [i \in Invs |-> <<>>]
    /\ issued = [i \in Invs |-> <<>>]
    /\ res = [i \in Invs |-> NoRes]
    /\ nupd = [i \in Invs |-> 0]
    /\ fs = (S_cwd :> Dir(0, CwdEntries))

\* one invocation, every combination of url parameters and datastore values
Init ==
    /\ ud \in { [i \in Invs |-> IF i = 1 THEN u ELSE PreUd(Parm(None, S_vob1, None))] :
                u \in WideUds }
    /\ d \in { [i \in Invs |-> IF i = 1 THEN dd
                                 ELSE Datastore(S_rel1, None, None, <<"0","1">>)] :
               dd \in WideDatastores }
    /\ InitRest

\* one invocation of a valid url, through its whole lifecycle
InitLife ==
    /\ ud \in { [i \in Invs |-> IF i = 1 THEN u ELSE PreUd(Parm(None, S_vob1, None))] :
                u \in LifeUds }
    /\ d \in { [i \in Invs |-> IF i = 1 THEN dd
                                 ELSE Datastore(S_rel1, None, None, <<"0","1">>)] :
               dd \in LifeDatastores }
    /\ InitRest

\* several invocations of one logical descriptor sharing DL_DIR
InitConc ==
    /\ ud = [i \in Invs |-> PreUd(Parm(None, S_vob1, S_mod1))]
    /\ d \in [Invs -> ConcDatastores]
    /\ InitRest


\* the two initializations that are compared with each other
Pair == {1, 2}

\* two initializations, each with its own url parameters and datastore
InitPair ==
    /\ ud \in { [i \in Invs |-> IF i = 1 THEN u1 ELSE IF i = 2 THEN u2
                                 ELSE PreUd(Parm(None, S_vob1, None))] :
                u1 \in PairUds, u2 \in PairUds }
    /\ d \in { [i \in Invs |-> IF i = 1 THEN d1 ELSE IF i = 2 THEN d2
                                ELSE Datastore(S_rel1, None, None, <<"0","1">>)] :
               d1 \in PairDatastores, d2 \in PairDatastores }
    /\ InitRest

\* ----------------------------------------------------------------- actions
\* the method invoked by the caller ends: normally (e = NoExc) or by raising e
Return(i, e, ret) ==
    /\ pc' = [pc EXCEPT ![i] = "idle"]
    /\ res' = [res EXCEPT ![i] = [op |-> op[i], exc |-> e, at |-> pc[i], ret |-> ret]]
    /\ op' = [op EXCEPT ![i] = "none"]

Step(i, name) == issued' = [issued EXCEPT ![i] = Append(@, name)]

\* the error texts the client tool can fail with
ToolTexts == { <<"CRCLI2008E", " You are not logged in">>, <<"cleartool: Error">> }

\* the FetchError runfetchcmd raises for a failed command
CmdFailed(text) == FetchError(<<"Fetch command failed, output: ">> \o text)

UrldataInit(i) ==
    /\ pc[i] = "new"
    /\ LET r == urldata_init(ud[i], d[i])
       IN  /\ ud' = [ud EXCEPT ![i] = IF r.exc = NoExc
                                      THEN [localpath |-> localpath(r.ud, d[i])] @@ r.ud
                                      ELSE r.ud]
           /\ pc' = [pc EXCEPT ![i] = IF r.exc = NoExc THEN "idle" ELSE "initfailed"]
           /\ res' = [res EXCEPT ![i] = [op |-> "urldata_init", exc |-> r.exc,
                                         at |-> "new", ret |-> "None"]]
    /\ UNCHANGED <<op, d, cmd, issued, nupd, fs>>

NeedUpdate(i) ==
    /\ pc[i] = "idle"
    /\ floating(ud[i]) => nupd[i] < MaxUpdates
    /\ LET r == need_update(ud[i], d[i], fs)
       IN  /\ ud' = [ud EXCEPT ![i] = r.ud]
           /\ res' = [res EXCEPT ![i] = [op |-> "need_update", exc |-> NoExc,
                                         at |-> "idle", ret |-> r.ret]]
    /\ nupd' = [nupd EXCEPT ![i] = IF floating(ud[i]) THEN @ + 1 ELSE @]
    /\ UNCHANGED <<pc, op, d, cmd, issued, fs>>

\* download(): mkdirhier, _write_configspec, build the mkview command
DownloadStart(i) ==
    /\ pc[i] = "idle"
    /\ op' = [op EXCEPT ![i] = "download"]
    /\ res' = [res EXCEPT ![i] = NoRes]
    /\ fs' = write_file(fs, ud[i].configspecfile, i, config_spec(ud[i], d[i]))
    /\ cmd' = [cmd EXCEPT ![i] = build_ccase_command(ud[i], S_mkview)]
    /\ issued' = [issued EXCEPT ![i] = <<"write_configspec">>]
    /\ pc' = [pc EXCEPT ![i] = "check_mkview"]
    /\ UNCHANGED <<ud, d, nupd>>

\* where each check_network_access call continues when it passes
AfterCheck == [check_mkview |-> "mkview", check_setcs |-> "setcs", check_rmview |-> "rmview"]

\* bb.fetch2.check_network_access(d, cmd, ud.url): passes or raises
CheckNetworkAccess(i) ==
    /\ pc[i] \in DOMAIN AfterCheck
    /\ \/ /\ pc' = [pc EXCEPT ![i] = AfterCheck[pc[i]]]
          /\ Step(i, pc[i])
          /\ UNCHANGED <<op, res>>
       \/ /\ Return(i, NetworkAccess, "None")
          /\ UNCHANGED issued
    /\ UNCHANGED <<ud, d, cmd, nupd, fs>>

\* the remediation hint of download()
Hint == <<"Call ", "rcleartool login",
          " in your console to authenticate to the clearcase server before running bitbake.">>

\* mutant: every FetchError of mkview is raised again as it is
mkview_error_verbatim(e) == e

\* the exception download() raises for FetchError e of the mkview command
mkview_error(e) ==
    IF contains(e.msg, <<"CRCLI2008E">>)
    THEN FetchError(e.msg \o <<"\n">> \o Hint \o <<"\n">>)
    ELSE e

\* mutant: a failure of the mkview command is swallowed and download() goes on
MkviewSwallow(i) ==
    /\ pc[i] = "mkview"
    /\ \/ /\ ~ exists(fs, ud[i].viewdir)
          /\ fs' = put(fs, ud[i].viewdir, Dir(i, {}))
       \/ fs' = fs
    /\ cmd' = [cmd EXCEPT ![i] = build_ccase_command(ud[i], S_setcs)]
    /\ pc' = [pc EXCEPT ![i] = "check_setcs"]
    /\ Step(i, "mkview")
    /\ UNCHANGED <<op, res, ud, d, nupd>>

\* runfetchcmd(cmd, d) of the mkview command, and its except clause
Mkview(i) ==
    /\ pc[i] = "mkview"
    /\ \/ /\ ~ exists(fs, ud[i].viewdir)
          /\ fs' = put(fs, ud[i].viewdir, Dir(i, {}))
          /\ cmd' = [cmd EXCEPT ![i] = build_ccase_command(ud[i], S_setcs)]
          /\ pc' = [pc EXCEPT ![i] = "check_setcs"]
          /\ UNCHANGED <<op, res>>
       \/ /\ \E text \in ToolTexts : Return(i, mkview_error(CmdFailed(text)), "None")
          /\ \/ fs' = fs
             \/ /\ ~ exists(fs, ud[i].viewdir)
                /\ fs' = put(fs, ud[i].viewdir, Dir(i, {}))
          /\ UNCHANGED cmd
    /\ Step(i, "mkview")
    /\ UNCHANGED <<ud, d, nupd>>

\* runfetchcmd(cmd, d, workdir=ud.viewdir) of the setcs command: the view
\* loads what the config spec file selects
Setcs(i) ==
    /\ pc[i] = "setcs"
    /\ \/ /\ exists(fs, ud[i].viewdir)
          /\ exists(fs, ud[i].configspecfile)
          /\ fs' = put(fs, ud[i].viewdir,
                       Dir(fs[ud[i].viewdir].by,
                           { [name |-> S_loaded, text |-> fs[ud[i].configspecfile].text] }))
          /\ pc' = [pc EXCEPT ![i] = "copyfile"]
          /\ UNCHANGED <<op, res>>
       \/ /\ \E text \in ToolTexts : Return(i, CmdFailed(text), "None")
          /\ UNCHANGED fs
    /\ Step(i, "setcs")
    /\ UNCHANGED <<ud, d, cmd, nupd>>

\* shutil.copyfile(ud.configspecfile, os.path.join(ud.viewdir, ud.csname))
Copyfile(i) ==
    /\ pc[i] = "copyfile"
    /\ \/ /\ exists(fs, ud[i].viewdir)
          /\ exists(fs, ud[i].configspecfile)
          /\ fs' = put(fs, ud[i].viewdir,
                       Dir(fs[ud[i].viewdir].by,
                           fs[ud[i].viewdir].entries
                             \cup { [name |-> ud[i].csname,
                                     text |-> fs[ud[i].configspecfile].text] }))
          /\ pc' = [pc EXCEPT ![i] = "tar"]
          /\ UNCHANGED <<op, res>>
       \/ /\ Return(i, IOError, "None")
          /\ UNCHANGED fs
    /\ Step(i, "copyfile")
    /\ UNCHANGED <<ud, d, cmd, nupd>>

\* the directories the process can be in when download() runs tar
Cwds(i) == { S_cwd, ud[i].viewdir }

\* mutant: the tar command is run without files to clean up
cleanup_none(i) == {}

\* the cleanup argument of the runfetchcmd call that runs tar
cleanup(i) == { ud[i].localpath }

\* the files after runfetchcmd ran a command that failed: what the command
\* had written before it failed stays, the files named by cleanup are removed
runfetchcmd_failed(files, paths) == [p \in DOMAIN files \ paths |-> files[p]]

\* runfetchcmd('tar -czf "%s" .' % ud.localpath, d, cleanup=[ud.localpath]):
\* packs the current directory; a failing tar may have written a part of the
\* archive
TarStep(i) ==
    /\ pc[i] = "tar"
    /\ \/ \E cwd \in Cwds(i) :
            /\ exists(fs, cwd)
            /\ fs' = put(fs, ud[i].localpath, Tar(i, fs[cwd].entries))
            /\ pc' = [pc EXCEPT ![i] = "remove_view"]
            /\ UNCHANGED <<op, res>>
       \/ /\ \E text \in ToolTexts : Return(i, CmdFailed(text), "None")
          /\ \E partial \in { fs, put(fs, ud[i].localpath, Tar(i, {})) } :
                fs' = runfetchcmd_failed(partial, cleanup(i))
    /\ Step(i, "tar")
    /\ UNCHANGED <<ud, d, cmd, nupd>>

\* clean() called by the caller
CleanStart(i) ==
    /\ pc[i] = "idle"
    /\ op' = [op EXCEPT ![i] = "clean"]
    /\ res' = [res EXCEPT ![i] = NoRes]
    /\ issued' = [issued EXCEPT ![i] = <<>>]
    /\ pc' = [pc EXCEPT ![i] = "remove_view"]
    /\ UNCHANGED <<ud, d, cmd, nupd, fs>>

\* mutant: rmview is issued whether or not the view directory exists
view_exists_always(i) == TRUE

\* the test os.path.exists(ud.viewdir) of _remove_view
view_exists(i) == exists(fs, ud[i].viewdir)

\* mutant: the rmview command is run without the network access check
RemoveViewTestNoCheck(i) ==
    /\ pc[i] = "remove_view"
    /\ IF view_exists(i)
       THEN /\ cmd' = [cmd EXCEPT ![i] = build_ccase_command(ud[i], S_rmview)]
            /\ pc' = [pc EXCEPT ![i] = "rmview"]
       ELSE /\ pc' = [pc EXCEPT ![i] = "remove_configspec"]
            /\ UNCHANGED cmd
    /\ UNCHANGED <<op, ud, d, issued, res, nupd, fs>>

\* _remove_view: the test, and the rmview command built when it passes
RemoveViewTest(i) ==
    /\ pc[i] = "remove_view"
    /\ IF view_exists(i)
       THEN /\ cmd' = [cmd EXCEPT ![i] = build_ccase_command(ud[i], S_rmview)]
            /\ pc' = [pc EXCEPT ![i] = "check_rmview"]
       ELSE /\ pc' = [pc EXCEPT ![i] = "remove_configspec"]
            /\ UNCHANGED cmd
    /\ UNCHANGED <<op, ud, d, issued, res, nupd, fs>>

\* runfetchcmd(cmd, d, workdir=ud.ccasedir) of the rmview command
Rmview(i) ==
    /\ pc[i] = "rmview"
    /\ \/ /\ fs' = remove(fs, ud[i].viewdir)
          /\ pc' = [pc EXCEPT ![i] = "remove_configspec"]
          /\ UNCHANGED <<op, res>>
       \/ /\ \E text \in ToolTexts : Return(i, CmdFailed(text), "None")
          /\ UNCHANGED fs
    /\ Step(i, "rmview")
    /\ UNCHANGED <<ud, d, cmd, nupd>>

\* mutant: the config spec file is left in place
RemoveConfigspecKeep(i) ==
    /\ pc[i] = "remove_configspec"
    /\ Step(i, "remove_configspec")
    /\ Return(i, NoExc, "None")
    /\ UNCHANGED <<ud, d, cmd, nupd, fs>>

\* mutant: os.unlink in place of bb.utils.remove, which raises on a missing file
RemoveConfigspecStrict(i) ==
    /\ pc[i] = "remove_configspec"
    /\ IF exists(fs, ud[i].configspecfile)
       THEN /\ fs' = remove(fs, ud[i].configspecfile)
            /\ Step(i, "remove_configspec")
            /\ Return(i, NoExc, "None")
       ELSE /\ Return(i, IOError, "None")
            /\ UNCHANGED <<fs, issued>>
    /\ UNCHANGED <<ud, d, cmd, nupd>>

\* bb.utils.remove(ud.configspecfile), after which clean() and with it a
\* download() that called it return
RemoveConfigspec(i) ==
    /\ pc[i] = "remove_configspec"
    /\ fs' = remove(fs, ud[i].configspecfile)
    /\ Step(i, "remove_configspec")
    /\ Return(i, NoExc, "None")
    /\ UNCHANGED <<ud, d, cmd, nupd>>

Lifecycle(i) ==
    \/ DownloadStart(i)
    \/ CheckNetworkAccess(i)
    \/ Mkview(i)
    \/ Setcs(i)
    \/ Copyfile(i)
    \/ TarStep(i)
    \/ CleanStart(i)
    \/ RemoveViewTest(i)
    \/ Rmview(i)
    \/ RemoveConfigspec(i)

Next == UrldataInit(1)

NextLife == UrldataInit(1) \/ NeedUpdate(1) \/ Lifecycle(1)

NextConc == \E i \in Invs : UrldataInit(i) \/ Lifecycle(i)

NextPair == \E i \in Pair : UrldataInit(i)

SpecPair == InitPair /\ [][NextPair]_vars

Spec == Init /\ [][Next]_vars

SpecLife == InitLife /\ [][NextLife]_vars

SpecConc == InitConc /\ [][NextConc]_vars


\* ------------------------------------------------------------------ claims
Has(seq, x) == \E k \in 1..Len(seq) : seq[k] = x

Initialised(i) == pc[i] \notin {"new", "initfailed"}

\* download() of invocation i has ended by raising before its call of clean()
DownloadRaisedBeforeClean(i) ==
    /\ res[i].op = "download"
    /\ res[i].exc # NoExc
    /\ res[i].at \in {"check_mkview", "mkview", "check_setcs", "setcs", "copyfile", "tar"}

C2_CleanIdempotent ==
    [][\A i \in Invs :
          /\ (Initialised(i) /\ Len(issued'[i]) > Len(issued[i])
                /\ issued'[i][Len(issued'[i])] \in {"check_rmview", "rmview"})
               => exists(fs, ud[i].viewdir)
          /\ (op[i] = "clean" /\ ~ exists(fs, ud[i].viewdir)
                /\ ~ exists(fs, ud[i].configspecfile))
               => /\ fs' = fs
                  /\ cmd' = cmd
                  /\ issued'[i] \in {issued[i], Append(issued[i], "remove_configspec")}
                  /\ op'[i] = "none" => res'[i].exc = NoExc
      ]_vars

\* a clean() that ran to its end without issuing anything, on a descriptor
\* whose earlier download had succeeded (its archive exists)
C2_Witness ==
    /\ res[1].op = "clean"
    /\ res[1].exc = NoExc
    /\ issued[1] = <<"remove_configspec">>
    /\ exists(fs, ud[1].localpath)
    /\ ~ exists(fs, ud[1].viewdir)
    /\ ~ exists(fs, ud[1].configspecfile)

\* C3 (as claimed): clean() never raises.
C3_CleanNeverRaises ==
    \A i \in Invs : res[i].op = "clean" => res[i].exc = NoExc

\* C3 (amended): clean() raises only out of _remove_view, that is only when
\* the view directory exists and the network check or rmview fails; the view
\* directory is then still there and the config spec file has not been
\* deleted.  With the view directory absent, or the check and rmview both
\* succeeding, clean() returns normally with both gone.
C3_CleanRaisesOnlyFromRmview ==
    \A i \in Invs :
        /\ (res[i].op = "clean" /\ res[i].exc # NoExc) =>
              /\ \/ res[i].at = "check_rmview" /\ res[i].exc = NetworkAccess
                 \/ res[i].at = "rmview" /\ res[i].exc.kind = "FetchError"
              /\ exists(fs, ud[i].viewdir)
              /\ ~ Has(issued[i], "remove_configspec")
        /\ (res[i].op = "clean" /\ res[i].exc = NoExc) =>
              /\ ~ exists(fs, ud[i].viewdir)
              /\ ~ exists(fs, ud[i].configspecfile)

\* a clean() that raised at rmview and left the config spec file behind
C3_Witness ==
    /\ res[1].op = "clean"
    /\ res[1].at = "rmview"
    /\ res[1].exc.kind = "FetchError"
    /\ exists(fs, ud[1].configspecfile)

\* C4: for a floating label or custom config spec every need_update call
\* returns True, archive or not, and leaves an identifier different from the
\* one it found.
C4_FloatingAlwaysUpdates ==
    [][\A i \in Invs :
          (pc[i] = "idle" /\ floating(ud[i]) /\ nupd'[i] # nupd[i]) =>
              /\ res'[i].op = "need_update"
              /\ res'[i].ret = "True"
              /\ ud'[i].identifier # ud[i].identifier
      ]_vars

\* two need_update calls on a floating descriptor whose archive exists
C4_Witness ==
    /\ Initialised(1)
    /\ floating(ud[1])
    /\ nupd[1] = 2
    /\ res[1].op = "need_update"
    /\ res[1].ret = "True"
    /\ exists(fs, ud[1].localpath)

\* C5 (as claimed): in every state the archive path is
\* DL_DIR/identifier.tar.gz and the view name is identifier-view<timestamp>.
C5_DerivedNamesFollowIdentifier ==
    \A i \in Invs :
        Initialised(i) =>
            /\ ud[i].localfile = path_join(d[i].DL_DIR, ud[i].identifier \o S_tar_gz)
            /\ ud[i].viewname = ud[i].identifier \o S_view \o d[i].DATETIME

\* the identifier urldata_init computed: the current one without the
\* timestamps need_update appended
RECURSIVE InitialIdentifier(_, _)
InitialIdentifier(i, n) ==
    IF n = 0 THEN ud[i].identifier
    ELSE LET id == InitialIdentifier(i, n - 1)
         IN  SubSeq(id, 1, Len(id) - Len(d[i].DATETIME) - 1)

\* C5 (amended): the derived names follow the identifier computed at
\* initialization, not the current one: the archive path is
\* DL_DIR/<initial identifier>.tar.gz and the view name is
\* <initial identifier>-view<timestamp> in every state; the timestamp
\* need_update appends changes the identifier alone, and a following
\* download() uses the same view name and archive path as before.
C5_DerivedNamesFixedAtInit ==
    \A i \in Invs :
        Initialised(i) =>
            LET id0 == InitialIdentifier(i, nupd[i])
                vn0 == id0 \o S_view \o d[i].DATETIME
                ar0 == path_join(d[i].DL_DIR, id0 \o S_tar_gz)
            IN  /\ Len(ud[i].identifier) = Len(id0) + nupd[i] * (Len(d[i].DATETIME) + 1)
                /\ ud[i].viewname = vn0
                /\ ud[i].viewdir = path_join(ud[i].ccasedir, vn0)
                /\ ud[i].localfile = ar0
                /\ ud[i].localpath = ar0
                /\ \A p \in DOMAIN fs :
                      /\ (fs[p].kind = "tar" /\ fs[p].by = i) => p = ar0
                      /\ (fs[p].kind = "dir" /\ fs[p].by = i) =>
                            p = path_join(ud[i].ccasedir, vn0)

\* a download() that succeeded after need_update had appended a timestamp
C5_Witness ==
    /\ nupd[1] > 0
    /\ res[1].op = "download"
    /\ res[1].exc = NoExc
    /\ exists(fs, ud[1].localpath)
    /\ ud[1].localfile # path_join(d[1].DL_DIR, ud[1].identifier \o S_tar_gz)

\* C6: for a descriptor that is not floating, need_update returns False
\* exactly when an archive exists at DL_DIR/identifier.tar.gz.
C6_CachedIffArchive ==
    \A i \in Invs :
        (pc[i] = "idle" /\ res[i].op = "need_update" /\ ~ floating(ud[i])) =>
            /\ res[i].ret \in {"True", "False"}
            /\ res[i].ret = "False" <=>
                  exists(fs, path_join(d[i].DL_DIR, ud[i].identifier \o S_tar_gz))

\* need_update answered False for a label that is not floating
C6_Witness ==
    /\ pc[1] = "idle"
    /\ res[1].op = "need_update"
    /\ ~ floating(ud[1])
    /\ res[1].ret = "False"

\* C7 (as claimed): no two invocations use the same view name, and a view
\* directory is used and removed only by the invocation that created it.
C7_ViewNamesUnique ==
    \A i \in Invs : \A j \in Invs :
        (i # j /\ Initialised(i) /\ Initialised(j)) =>
            /\ ud[i].viewname # ud[j].viewname
            /\ (pc[i] \in {"setcs", "copyfile", "tar", "rmview"}
                  /\ exists(fs, ud[i].viewdir)) => fs[ud[i].viewdir].by = i

\* C8: a mkview failure whose text holds CRCLI2008E is raised as a FetchError
\* whose message holds the tool's text and the remediation hint; any other
\* mkview failure is raised as it came; in both cases neither setcs nor tar
\* has been executed.
C8_MkviewAuthFailure ==
    \A i \in Invs :
        (res[i].op = "download" /\ res[i].at = "mkview") =>
            /\ res[i].exc.kind = "FetchError"
            /\ ~ Has(issued[i], "setcs")
            /\ ~ Has(issued[i], "tar")
            /\ \E text \in ToolTexts :
                  IF contains(text, <<"CRCLI2008E">>)
                  THEN /\ contains(res[i].exc.msg, text)
                       /\ contains(res[i].exc.msg, Hint)
                  ELSE res[i].exc = CmdFailed(text)

\* download() raised for a mkview failure with the authentication signature
C8_Witness ==
    /\ res[1].op = "download"
    /\ res[1].at = "mkview"
    /\ contains(res[1].exc.msg, <<"CRCLI2008E">>)

BadParameters(i) ==
    \/ "vob" \notin DOMAIN ud[i].parm
    \/ ud[i].parm.vob = <<>>
    \/ ("protocol" \in DOMAIN ud[i].parm /\ ud[i].parm.protocol \notin {S_http, S_https})

\* C9 (as claimed): with the vob absent or empty, or a protocol other than
\* http and https, urldata_init fails with a parameter error before any
\* command runs; a descriptor that initializes has a non-empty vob and an
\* http or https protocol.
C9_ParameterError ==
    \A i \in Invs :
        /\ (pc[i] # "new" /\ BadParameters(i)) =>
              /\ pc[i] = "initfailed"
              /\ res[i].exc.kind \in {"ParameterError", "MissingParameterError"}
              /\ issued[i] = <<>>
        /\ pc[i] = "idle" =>
              /\ ud[i].vob # <<>>
              /\ ud[i].proto \in {S_http, S_https}

S_id_claimed == <<"c","l","e","a","r","c","a","s","e","-","v","o","b","1","m","o","d","1","-","r","e","l","1">>
S_id_example == <<"c","l","e","a","r","c","a","s","e","-","v","o","b","1",".","m","o","d","1","-","r","e","l","1">>
S_id_no_module == <<"c","l","e","a","r","c","a","s","e","-","v","o","b","1","-","r","e","l","1">>
S_id_latest == <<"c","l","e","a","r","c","a","s","e","-","v","o","b","1",".","m","o","d","1","-",".","m","a","i","n",".","L","A","T","E","S","T">>

Example(i, vob, module, label) ==
    /\ pc[i] = "idle"
    /\ ud[i].vob = vob
    /\ ud[i].module = module
    /\ ud[i].label = label

\* C10 (as claimed): for vob "/vob1", module "/mod1", label "rel1" the
\* identifier is "clearcase-vob1mod1-rel1" and the archive path is
\* DL_DIR/clearcase-vob1mod1-rel1.tar.gz.
C10_IdentifierStripped ==
    \A i \in Invs :
        Example(i, S_vob1, S_mod1, S_rel1) =>
            /\ ud[i].identifier = S_id_claimed
            /\ ud[i].localfile = S_dl \o <<"/">> \o S_id_claimed \o S_tar_gz

\* C10 (amended): the identifier is "clearcase-", the vob with its "/"
\* removed, the module with each "/" replaced by ".", "-", and the label
\* with each "/" replaced by ".": "clearcase-vob1.mod1-rel1" for the
\* example, with the archive at DL_DIR/clearcase-vob1.mod1-rel1.tar.gz.
C10_IdentifierDotted ==
    \A i \in Invs :
        /\ Example(i, S_vob1, S_mod1, S_rel1) =>
              /\ ud[i].identifier = S_id_example
              /\ ud[i].localfile = S_dl \o <<"/">> \o S_id_example \o S_tar_gz
        /\ Example(i, S_vob1, <<>>, S_rel1) =>
              /\ ud[i].identifier = S_id_no_module
              /\ ud[i].localfile = S_dl \o <<"/">> \o S_id_no_module \o S_tar_gz
        /\ Example(i, S_vob1, S_mod1, S_main_latest) =>
              /\ ud[i].identifier = S_id_latest
              /\ ud[i].localfile = S_dl \o <<"/">> \o S_id_latest \o S_tar_gz

\* urldata_init has run for the example of the claim
C10_Witness == Example(1, S_vob1, S_mod1, S_rel1)


\* C11: two initializations with the same vob, module and label compute the
\* same identifier, whatever else differs between them (timestamp, custom
\* config spec, client command), and no identifier holds a "/".
C11_IdentifierDeterministic ==
    /\ \A i \in Pair : pc[i] = "idle" => ~ Has(ud[i].identifier, "/")
    /\ \A i \in Pair : \A j \in Pair :
          (pc[i] = "idle" /\ pc[j] = "idle"
             /\ ud[i].vob = ud[j].vob /\ ud[i].module = ud[j].module
             /\ ud[i].label = ud[j].label)
            => ud[i].identifier = ud[j].identifier

\* two initializations of one vob, module and label full of separators that
\* differ in timestamp, custom config spec and client command
C11_Witness ==
    /\ pc[1] = "idle" /\ pc[2] = "idle"
    /\ ud[1].vob = S_vob1 /\ ud[2].vob = S_vob1
    /\ ud[1].module = S_mod1 /\ ud[2].module = S_mod1
    /\ ud[1].label = S_main_latest /\ ud[2].label = S_main_latest
    /\ d[1].DATETIME # d[2].DATETIME
    /\ d[1].CCASE_CUSTOM_CONFIG_SPEC # d[2].CCASE_CUSTOM_CONFIG_SPEC
    /\ ud[1].basecmd # ud[2].basecmd
    /\ ud[1].viewname # ud[2].viewname


\* the config spec file of invocation i exists and i wrote it
ConfigspecWritten(i) ==
    /\ Initialised(i)
    /\ exists(fs, ud[i].configspecfile)
    /\ fs[ud[i].configspecfile].by = i

\* C12 (as claimed): with a custom config spec set, the content written to
\* the config spec file is the custom text verbatim.
C12_CustomVerbatim ==
    \A i \in Invs :
        (ConfigspecWritten(i) /\ d[i].CCASE_CUSTOM_CONFIG_SPEC # None) =>
            fs[ud[i].configspecfile].text = d[i].CCASE_CUSTOM_CONFIG_SPEC

\* what is written for each custom config spec of the inputs
CustomWritten(custom) ==
    CASE custom = S_custom_latest ->
            S_element \o S_main_latest \o <<"\n">> \o S_load \o S_vob1 \o <<"\n">>
      [] custom = S_custom_line -> S_element \o <<"Y">> \o <<"\n">>
      [] custom = S_custom_plain ->
            S_element \o <<"X">> \o <<"\n">> \o S_load \o S_vob1 \o <<"\n">>

\* C12 (amended): with a custom config spec set, the content written is the
\* custom text with every backslash-n pair turned into a newline and one
\* newline appended, whatever vob, module and label are; nothing of the
\* default config spec is added to it.
C12_CustomNormalised ==
    \A i \in Invs :
        (ConfigspecWritten(i) /\ d[i].CCASE_CUSTOM_CONFIG_SPEC # None) =>
            fs[ud[i].configspecfile].text = CustomWritten(d[i].CCASE_CUSTOM_CONFIG_SPEC)

\* a one-line custom config spec has been written for the label rel1
C12_Witness ==
    /\ ConfigspecWritten(1)
    /\ d[1].CCASE_CUSTOM_CONFIG_SPEC = S_custom_line
    /\ ud[1].label = S_rel1
    /\ fs[ud[1].configspecfile].text # S_custom_line

S_line_rel1 == S_element \o <<"r","e","l","1">>
S_line_latest == S_element \o <<"/","m","a","i","n","/","L","A","T","E","S","T">>
S_line_load == <<"l","o","a","d"," ","/","v","o","b","1","/","m","o","d","1">>

\* C13: without a custom config spec the config spec file holds exactly the
\* three newline-terminated lines "element * CHECKEDOUT", "element * <label>"
\* and "load <vob><module>", in this order, and nothing written before.
C13_DefaultThreeLines ==
    \A i \in Invs :
        (ConfigspecWritten(i) /\ d[i].CCASE_CUSTOM_CONFIG_SPEC = None) =>
            fs[ud[i].configspecfile].text =
                S_checkedout \o <<"\n">>
                \o (IF ud[i].label = S_rel1 THEN S_line_rel1 ELSE S_line_latest) \o <<"\n">>
                \o S_line_load \o <<"\n">>

\* a download wrote the default config spec over the file that its own
\* failed predecessor had left
C13_Witness ==
    /\ ConfigspecWritten(1)
    /\ d[1].CCASE_CUSTOM_CONFIG_SPEC = None
    /\ pc[1] = "check_mkview"
    /\ exists(fs, ud[1].viewdir)


starts_with(s, p) == Len(p) <= Len(s) /\ SubSeq(s, 1, Len(p)) = p

ends_with(s, p) == Len(p) <= Len(s) /\ SubSeq(s, Len(s) - Len(p) + 1, Len(s)) = p

\* the verb of the command that invocation i has built and not yet run
Verb ==
    [check_mkview |-> S_mkview, mkview |-> S_mkview,
     check_setcs |-> S_setcs, setcs |-> S_setcs,
     check_rmview |-> S_rmview, rmview |-> S_rmview]

\* the client of invocation i is the remote one: its base command is
\* rcleartool or the default, which falls back to rcleartool
Remote(i) == ud[i].basecmd \in {S_rcleartool, S_default_basecmd}

\* C14: for the remote client every command built for mkview, rmview and
\* setcs has the server option right after the verb, before every option of
\* the verb; for the local client no built command has a server option.
C14_ServerOptionFirst ==
    \A i \in Invs :
        pc[i] \in DOMAIN Verb =>
            LET head == ud[i].basecmd \o <<" ">> \o Verb[pc[i]] \o <<" ">>
            IN  /\ starts_with(cmd[i], head)
                /\ Remote(i) =>
                      starts_with(cmd[i],
                                  head \o <<"-","s","e","r","v","e","r"," ">>
                                       \o ud[i].server \o <<" ">>)
                /\ ~ Remote(i) => ~ contains(cmd[i], <<"-","s","e","r","v","e","r">>)

\* the remote client is about to run a setcs command that has the server option
C14_Witness ==
    /\ pc[1] = "setcs"
    /\ ud[1].basecmd = S_rcleartool
    /\ contains(cmd[1], <<"-","s","e","r","v","e","r"," ">> \o ud[1].server
                          \o <<" ","-","o","v","e","r","w","r","i","t","e"," ">>)

\* C15: the mkview command has the snapshot flag iff the client is local,
\* and then right before the tag option; it always ends with the tag option
\* carrying the view name followed by the view directory; the rmview and
\* setcs commands never have the snapshot flag.
C15_SnapshotOnlyLocalMkview ==
    \A i \in Invs :
        pc[i] \in DOMAIN Verb =>
            LET tag == <<"-","t","a","g"," ">> \o ud[i].viewname \o <<" ">> \o ud[i].viewdir
                snapshot == <<"-","s","n","a","p","s","h","o","t">>
            IN  IF Verb[pc[i]] = S_mkview
                THEN /\ contains(cmd[i], snapshot) <=> ~ Remote(i)
                     /\ ends_with(cmd[i], <<" ">> \o tag)
                     /\ ~ Remote(i) => ends_with(cmd[i], <<" ">> \o snapshot \o <<" ">> \o tag)
                ELSE ~ contains(cmd[i], snapshot)

\* the local client is about to run a mkview command with the snapshot flag
C15_Witness ==
    /\ pc[1] = "mkview"
    /\ ud[1].basecmd = S_cleartool
    /\ contains(cmd[1], <<"-","s","n","a","p","s","h","o","t"," ","-","t","a","g"," ">>)


\* the steps of a complete download(), in the order of its statements
DownloadOrder ==
    << "write_configspec", "check_mkview", "mkview", "check_setcs", "setcs",
       "copyfile", "tar", "check_rmview", "rmview", "remove_configspec" >>

\* invocation i is in download() or its last call was download()
InDownload(i) == op[i] = "download" \/ (op[i] = "none" /\ res[i].op = "download")

\* C16: the steps of one download() are an initial part of the order write
\* config spec, mkview, setcs, copy, archive, rmview, so none happens twice;
\* setcs is reached only with the view that mkview created, and the archive
\* step only with the loaded files and the config spec copy in the view.
C16_LifecycleOrder ==
    \A i \in Invs :
        InDownload(i) =>
            /\ starts_with(DownloadOrder, issued[i])
            /\ pc[i] \in {"check_setcs", "setcs"} =>
                  /\ exists(fs, ud[i].viewdir)
                  /\ issued[i][Len(issued[i])] \in {"mkview", "check_setcs"}
            /\ pc[i] = "tar" =>
                  /\ exists(fs, ud[i].viewdir)
                  /\ \E e \in fs[ud[i].viewdir].entries : e.name = S_loaded
                  /\ \E e \in fs[ud[i].viewdir].entries :
                        /\ e.name = ud[i].csname
                        /\ e.text = fs[ud[i].configspecfile].text

\* a download() has returned normally after all its steps
C16_Witness ==
    /\ op[1] = "none"
    /\ res[1].op = "download"
    /\ res[1].exc = NoExc
    /\ issued[1] = DownloadOrder


\* C17 (as claimed): when the archive step of download() has run, the
\* archive at ud.localpath holds exactly the content of the view directory
\* of this invocation: the loaded files and the config spec copy.
C17_ArchiveHoldsView ==
    \A i \in Invs :
        (op[i] = "download" /\ pc[i] = "remove_view") =>
            /\ exists(fs, ud[i].localpath)
            /\ fs[ud[i].localpath].entries = fs[ud[i].viewdir].entries


\* the step recorded last for invocation i
LastIssued(i) == IF issued[i] = <<>> THEN "none" ELSE issued[i][Len(issued[i])]

\* the command steps and the check that precedes each
CheckOf == [mkview |-> "check_mkview", setcs |-> "check_setcs", rmview |-> "check_rmview"]

\* C18: a client command is run only right after the network access check
\* of that same command passed; when the check raises, the command is not
\* run and the caller gets the error of the check.
C18_CheckBeforeCommand ==
    \A i \in Invs :
        /\ pc[i] \in DOMAIN CheckOf =>
              /\ LastIssued(i) = CheckOf[pc[i]]
              /\ cmd[i] = build_ccase_command(ud[i], Verb[pc[i]])
        /\ \A k \in 1..Len(issued[i]) :
              issued[i][k] \in DOMAIN CheckOf =>
                  k > 1 /\ issued[i][k - 1] = CheckOf[issued[i][k]]
        /\ (op[i] = "none" /\ res[i].at \in DOMAIN AfterCheck) =>
              /\ res[i].exc = [kind |-> "NetworkAccess", msg |-> <<"Network access disabled">>]
              /\ LastIssued(i) \notin {res[i].at, AfterCheck[res[i].at]}

\* the network access check of the setcs command raised in download()
C18_Witness ==
    /\ op[1] = "none"
    /\ res[1].op = "download"
    /\ res[1].at = "check_setcs"
    /\ res[1].exc.kind = "NetworkAccess"
    /\ issued[1] = <<"write_configspec", "check_mkview", "mkview">>


\* C19: when the archive step of download() fails, the caller gets the
\* error of the tar command and no file, partial or from an earlier
\* download, is at ud.localpath.
C19_NoPartialArchive ==
    \A i \in Invs :
        (op[i] = "none" /\ res[i].op = "download" /\ res[i].at = "tar") =>
            /\ ~ exists(fs, ud[i].localpath)
            /\ res[i].exc.kind = "FetchError"
            /\ starts_with(res[i].exc.msg,
                           <<"Fetcher failure: ", "Fetch command failed, output: ">>)

\* download() has raised the error of its archive step
C19_Witness ==
    /\ op[1] = "none"
    /\ res[1].op = "download"
    /\ res[1].at = "tar"
    /\ res[1].exc.kind = "FetchError"
    /\ issued[1] = <<"write_configspec", "check_mkview", "mkview", "check_setcs",
                     "setcs", "copyfile", "tar">>


\* C20 (as claimed): when the invocations have distinct view names, an
\* invocation that is about to run setcs or to copy the config spec into
\* its view finds the config spec file with the content it wrote itself.
C20_ConfigspecIsolated ==
    \A i \in Invs :
        (/\ pc[i] \in {"setcs", "copyfile"}
         /\ \A j \in Invs \ {i} : Initialised(j) => ud[j].viewname # ud[i].viewname) =>
            /\ exists(fs, ud[i].configspecfile)
            /\ fs[ud[i].configspecfile].text = config_spec(ud[i], d[i])

====
